---- MODULE Spec2Model ----
(***************************************************************************)
(* Model of dataplug/cloudobject.py: the CloudDataType descriptor          *)
(* (preprocessor resolution, single-assignment class binding) and the      *)
(* CloudObject reference (metadata cache, attribute decoding, existence    *)
(* checks, constructors and the preprocessing dispatcher) working against  *)
(* an object store that holds one primary object and its metadata          *)
(* companion.                                                              *)
(***************************************************************************)
EXTENDS Integers, Sequences, FiniteSets, TLC

VARIABLES
    s3,        \* the store: [obj, meta], each None or [res, metadata]
    has_co,    \* TRUE when the caller holds a CloudObject reference
    co,        \* the reference: [cls, obj_meta, meta_meta, obj_attrs]
    heads,     \* HEAD lookups fetch() has issued for this reference, per slot
    call,      \* the last CloudObject call: arguments, outcome, effects
    pre,       \* the reference and the store as they were when that call began
    types,     \* the CloudDataType descriptors constructed so far
    dt_call,   \* the last CloudDataType call: arguments, outcome, prior binding
    threads    \* the fetch() calls running concurrently on the reference

vars == <<s3, has_co, co, heads, call, pre, types, dt_call, threads>>

co_vars == <<s3, has_co, co, heads, call, pre>>
dt_vars == <<types, dt_call>>

-----------------------------------------------------------------------------
(* Bounds *)

\* fetch() is not started once it has issued this many lookups of one slot
MaxHeads == 2
\* a partitioning strategy returns at most this many slices
MaxSlices == 3
\* at most this many CloudDataType descriptors are constructed
MaxTypes == 3

-----------------------------------------------------------------------------
(* Values *)

\* Python's None, as a record so that it compares with dicts and tuples
None == [NoneType |-> TRUE]

\* exception raised by a call; NoError when the call returned
NoError == "no error"
KeyError == "KeyError"
CorruptAttributes == "CorruptAttributes"
AlreadyExists == "Object already exists"
AlreadyPreprocessed == "Object is already preprocessed"
NotPreprocessable == "This object cannot be preprocessed"
NoPreprocessor == "There is not preprocessor"
TypeError == "TypeError"
CantOverwrite == "Can't overwrite decorator"
BackendError == "BackendError"
AttributeError == "AttributeError"

\* attribute names and attribute values
AttrKeys == {"a", "b"}
AttrValues == {1}

\* classes a CloudDataType may be bound to, and an argument that is no class
Classes == {"ClassA", "ClassB"}
NotAClass == "an instance"

\* preprocessor classes: subclasses of BatchPreprocessor, of
\* MapReducePreprocessor, and a class that is neither; "None" for no preprocessor
Preprocessors == {"Batch", "MapReduce", "Other"}

\* HEAD responses of primary objects (what an upload of a local file stores)
FileHeads == {[ContentLength |-> 10], [ContentLength |-> 20]}
\* HEAD response of a metadata companion
MetaHead == [ContentLength |-> 0]

EmptyAttrs == [k \in {} |-> 0]

-----------------------------------------------------------------------------
(* dataplug.util: the attribute encoding and the HEAD lookup *)

\* the stored form of one attribute value (dump_attributes, per value)
dump_value(v) == 2 * v + 1

\* the stored forms that decode
Decodable(e) == \E v \in AttrValues : dump_value(v) = e

load_value(e) == CHOOSE v \in AttrValues : dump_value(v) = e

\* encode(attributes): the payload stored with the metadata companion
dump_attributes(attrs) == [k \in DOMAIN attrs |-> dump_value(attrs[k])]

\* decode(payload): the whole mapping, or a failure when some value is corrupt
load_attributes(encoded_attrs) ==
    IF \A k \in DOMAIN encoded_attrs : Decodable(encoded_attrs[k])
    THEN [raised |-> NoError,
          attrs  |-> [k \in DOMAIN encoded_attrs |-> load_value(encoded_attrs[k])]]
    ELSE [raised |-> CorruptAttributes, attrs |-> EmptyAttrs]

\* head_object(s3, bucket, key): (res, metadata) of the stored object, or KeyError
head_object(store, slot) ==
    IF store[slot] = None
    THEN [raised |-> KeyError, res |-> None, metadata |-> EmptyAttrs]
    ELSE [raised |-> NoError, res |-> store[slot].res, metadata |-> store[slot].metadata]

\* the object written at a location
StoredObject(res, metadata) == [res |-> res, metadata |-> metadata]

-----------------------------------------------------------------------------
(* CloudDataType *)

\* CloudDataType.__init__: unbound, with its own preprocessor ("None" when
\* not given) and its parent (0 when inherit_from is not given)
NewCloudDataType(preprocessor_, inherit_from) ==
    [co_class |-> "None", preprocessor |-> preprocessor_, parent |-> inherit_from]

\* a resolution that asks the parent first and falls back on its own preprocessor
RECURSIVE preprocessor_parent_first(_, _)
preprocessor_parent_first(table, t) ==
    LET up == IF table[t].parent # 0
              THEN preprocessor_parent_first(table, table[t].parent)
              ELSE [raised |-> NoPreprocessor, ret |-> "None", hops |-> 0]
    IN  IF up.raised = NoError
        THEN [up EXCEPT !.hops = @ + 1]
        ELSE IF table[t].preprocessor # "None"
             THEN [raised |-> NoError, ret |-> table[t].preprocessor, hops |-> 0]
             ELSE [raised |-> NoPreprocessor, ret |-> "None", hops |-> 0]

\* CloudDataType.preprocessor of descriptor t; hops counts the delegations
RECURSIVE preprocessor(_, _)
preprocessor(table, t) ==
    IF table[t].preprocessor # "None"
    THEN [raised |-> NoError, ret |-> table[t].preprocessor, hops |-> 0]
    ELSE IF table[t].parent # 0
         THEN LET r == preprocessor(table, table[t].parent)
              IN  [r EXCEPT !.hops = @ + 1]
         ELSE [raised |-> NoPreprocessor, ret |-> "None", hops |-> 0]

\* inspect.isclass
isclass(cls) == cls \in Classes

\* a binding that replaces the class already bound
bind_overwriting(d, cls) ==
    IF ~isclass(cls)
    THEN [d |-> d, raised |-> TypeError]
    ELSE [d |-> [d EXCEPT !.co_class = cls], raised |-> NoError]

\* CloudDataType.__call__ on descriptor d
bind(d, cls) ==
    IF ~isclass(cls)
    THEN [d |-> d, raised |-> TypeError]
    ELSE IF d.co_class = "None"
         THEN [d |-> [d EXCEPT !.co_class = cls], raised |-> NoError]
         ELSE [d |-> d, raised |-> CantOverwrite]

\* issubclass(preprocessor, BatchPreprocessor / MapReducePreprocessor)
IsBatch(p) == p = "Batch"
IsMapReduce(p) == p = "MapReduce"

\* the descriptors a CloudObject is constructed with: a batch root, a
\* descriptor inheriting from it, a map-reduce descriptor overriding it, one
\* whose preprocessor is of neither kind, and one with no preprocessor at all
RegisteredTypes ==
    << NewCloudDataType("Batch", 0),
       NewCloudDataType("None", 1),
       NewCloudDataType("MapReduce", 1),
       NewCloudDataType("Other", 0),
       NewCloudDataType("None", 0) >>

-----------------------------------------------------------------------------
(* CloudObject *)

\* truth value of an Optional[dict] slot: None is false, a HEAD response
\* (never an empty dict) is true
Truthy(d) == d # None

\* CloudObject.__init__
NewCloudObject(data_type) ==
    [cls |-> data_type, obj_meta |-> None, meta_meta |-> None, obj_attrs |-> EmptyAttrs]

\* no lookups issued yet
NoHeads == [obj |-> 0, meta |-> 0]

\* a returned value (a call that yields no value returns None)
Returned(v) == [value |-> v]

\* what a call that does nothing but return leaves behind: the store as it
\* is, no value, no lookup, no upload, no backend run
NoEffect(store) ==
    [store |-> store, ret |-> None, n_obj |-> 0, n_meta |-> 0, n_upload |-> 0,
     n_batch |-> 0, n_map_reduce |-> 0]

\* a decoding that stores the values decoded before the corrupt one was met
SetObjAttrsPartial(self, encoded_attrs, d) ==
    IF d.raised = NoError
    THEN [self |-> [self EXCEPT !.obj_attrs = d.attrs], raised |-> NoError]
    ELSE [self |-> [self EXCEPT !.obj_attrs =
                       [k \in {j \in DOMAIN encoded_attrs : Decodable(encoded_attrs[j])}
                          |-> load_value(encoded_attrs[k])]],
          raised |-> d.raised]

\* a decoding whose result is never stored
SetObjAttrsSkipped(self, encoded_attrs, d) == [self |-> self, raised |-> d.raised]

\* self._obj_attrs = SimpleNamespace(**load_attributes(encoded_attrs)), with d
\* the outcome of load_attributes(encoded_attrs): the assignment happens only
\* when the decoding returned
SetObjAttrs(self, encoded_attrs, d) ==
    IF d.raised = NoError
    THEN [self |-> [self EXCEPT !.obj_attrs = d.attrs], raised |-> NoError]
    ELSE [self |-> self, raised |-> d.raised]

\* an object slot that is looked up whether or not it is already cached
FetchObjSlotUncached(self, h, enforce_obj) ==
    IF h.raised = NoError
    THEN [self |-> [self EXCEPT !.obj_meta = h.res], raised |-> NoError, n_obj |-> 1]
    ELSE [self |-> [self EXCEPT !.obj_meta = None],
          raised |-> IF enforce_obj THEN KeyError ELSE NoError, n_obj |-> 1]

\* an object slot that raises on a missing object whatever enforce_obj is
FetchObjSlotAlwaysEnforced(self, h, enforce_obj) ==
    IF ~Truthy(self.obj_meta)
    THEN IF h.raised = NoError
         THEN [self |-> [self EXCEPT !.obj_meta = h.res], raised |-> NoError, n_obj |-> 1]
         ELSE [self |-> [self EXCEPT !.obj_meta = None], raised |-> KeyError, n_obj |-> 1]
    ELSE [self |-> self, raised |-> NoError, n_obj |-> 0]

\* fetch(), the object slot; h is what head_object answers for the primary
\* object, asked only when the slot is not cached
FetchObjSlot(self, h, enforce_obj) ==
    IF ~Truthy(self.obj_meta)
    THEN IF h.raised = NoError
         THEN [self |-> [self EXCEPT !.obj_meta = h.res], raised |-> NoError, n_obj |-> 1]
         ELSE [self |-> [self EXCEPT !.obj_meta = None],
               raised |-> IF enforce_obj THEN KeyError ELSE NoError, n_obj |-> 1]
    ELSE [self |-> self, raised |-> NoError, n_obj |-> 0]

\* fetch(), the companion was found: a is the outcome of storing its attributes
FetchMetaFound(a) ==
    [self |-> a.self, raised |-> a.raised, n_meta |-> 1,
     ret |-> IF a.raised = NoError
             THEN Returned(<<a.self.obj_meta, a.self.meta_meta>>)
             ELSE None]

\* fetch(), the companion was not found: self already holds meta_meta = None
FetchMetaMissing(self, enforce_meta) ==
    IF enforce_meta
    THEN [self |-> self, raised |-> KeyError, n_meta |-> 1, ret |-> None]
    ELSE [self |-> self, raised |-> NoError, n_meta |-> 1,
          ret |-> Returned(<<self.obj_meta, self.meta_meta>>)]

\* a metadata slot followed by a return statement outside the branch: the
\* pair is returned also when the slot is cached
FetchMetaSlotAlwaysReturning(self, h, enforce_meta) ==
    IF ~Truthy(self.meta_meta)
    THEN IF h.raised = NoError
         THEN FetchMetaFound(SetObjAttrs([self EXCEPT !.meta_meta = h.res], h.metadata,
                                         load_attributes(h.metadata)))
         ELSE FetchMetaMissing([self EXCEPT !.meta_meta = None], enforce_meta)
    ELSE [self |-> self, raised |-> NoError, n_meta |-> 0,
          ret |-> Returned(<<self.obj_meta, self.meta_meta>>)]

\* fetch(), the metadata slot; h is what head_object answers for the
\* companion, asked only when the slot is not cached. The return statement
\* is inside this branch
FetchMetaSlot(self, h, enforce_meta) ==
    IF ~Truthy(self.meta_meta)
    THEN IF h.raised = NoError
         THEN FetchMetaFound(SetObjAttrs([self EXCEPT !.meta_meta = h.res], h.metadata,
                                         load_attributes(h.metadata)))
         ELSE FetchMetaMissing([self EXCEPT !.meta_meta = None], enforce_meta)
    ELSE [self |-> self, raised |-> NoError, n_meta |-> 0, ret |-> None]

\* a fetch() that looks up the companion before the failure of the object
\* slot is raised
FetchAfterObjSlotEager(o, store, enforce_meta) ==
    IF o.raised # NoError
    THEN [FetchMetaSlot(o.self, head_object(store, "meta"), FALSE)
             EXCEPT !.raised = o.raised, !.ret = None] @@ [n_obj |-> o.n_obj]
    ELSE FetchMetaSlot(o.self, head_object(store, "meta"), enforce_meta)
            @@ [n_obj |-> o.n_obj]

\* fetch() after the object slot: o is the outcome of FetchObjSlot
FetchAfterObjSlot(o, store, enforce_meta) ==
    IF o.raised # NoError
    THEN [self |-> o.self, raised |-> o.raised, ret |-> None, n_meta |-> 0,
          n_obj |-> o.n_obj]
    ELSE FetchMetaSlot(o.self, head_object(store, "meta"), enforce_meta)
            @@ [n_obj |-> o.n_obj]

\* CloudObject.fetch
fetch(self, store, enforce_obj, enforce_meta) ==
    FetchAfterObjSlot(FetchObjSlot(self, head_object(store, "obj"), enforce_obj),
                      store, enforce_meta)
       @@ NoEffect(store)

\* exists() after its fetch(): bool(self._obj_meta), or the failure of the fetch
ExistsAfterFetch(f) ==
    [f EXCEPT !.ret = IF f.raised = NoError THEN Returned(Truthy(f.self.obj_meta))
                      ELSE None]

\* an exists() that answers from the object slot as it is, without fetching
exists_cached(self, store) ==
    [self |-> self, raised |-> NoError, ret |-> Returned(Truthy(self.obj_meta))]
        @@ NoEffect(store)

\* CloudObject.exists
exists(self, store) ==
    IF ~Truthy(self.obj_meta)
    THEN ExistsAfterFetch(fetch(self, store, FALSE, FALSE))
    ELSE [self |-> self, raised |-> NoError, ret |-> Returned(Truthy(self.obj_meta))]
            @@ NoEffect(store)

\* an answer taken from the cached companion slot instead of the store
is_preprocessed_cached(self, store) == Truthy(self.meta_meta)

\* CloudObject.is_preprocessed
is_preprocessed(self, store) ==
    IF head_object(store, "meta").raised = NoError THEN TRUE ELSE FALSE

\* the backend's execution path (preprocess_batch / preprocess_map_reduce):
\* it writes the metadata companion, or fails and writes nothing
backend_run(store, ok, attrs) ==
    IF ok
    THEN [store |-> [store EXCEPT !.meta = StoredObject(MetaHead, dump_attributes(attrs))],
          raised |-> NoError]
    ELSE [store |-> store, raised |-> BackendError]

\* a dispatch that takes the map-reduce path for a batch preprocessor and the
\* batch path for a map-reduce one
DispatchSwapped(self, store, p, ok, attrs) ==
    IF p.raised # NoError
    THEN [self |-> self, raised |-> p.raised] @@ NoEffect(store)
    ELSE IF IsMapReduce(p.ret)
         THEN [self |-> self, n_batch |-> 1] @@ backend_run(store, ok, attrs)
                 @@ NoEffect(store)
         ELSE IF IsBatch(p.ret)
              THEN [self |-> self, n_map_reduce |-> 1] @@ backend_run(store, ok, attrs)
                      @@ NoEffect(store)
              ELSE [self |-> self, raised |-> NotPreprocessable] @@ NoEffect(store)

\* preprocess() once the guard has passed: p is the outcome of resolving the
\* preprocessor of the reference's data type
Dispatch(self, store, p, ok, attrs) ==
    IF p.raised # NoError
    THEN [self |-> self, raised |-> p.raised] @@ NoEffect(store)
    ELSE IF IsBatch(p.ret)
         THEN [self |-> self, n_batch |-> 1] @@ backend_run(store, ok, attrs)
                 @@ NoEffect(store)
         ELSE IF IsMapReduce(p.ret)
              THEN [self |-> self, n_map_reduce |-> 1] @@ backend_run(store, ok, attrs)
                      @@ NoEffect(store)
              ELSE [self |-> self, raised |-> NotPreprocessable] @@ NoEffect(store)

\* a preprocess whose guard rejects the object that is already preprocessed
preprocess_guarding_redo(self, store, table, force, ok, attrs) ==
    IF is_preprocessed(self, store) /\ ~force
    THEN [self |-> self, raised |-> AlreadyPreprocessed] @@ NoEffect(store)
    ELSE Dispatch(self, store, preprocessor(table, self.cls), ok, attrs)

\* CloudObject.preprocess; ok and attrs are the backend's behaviour
preprocess(self, store, table, force, ok, attrs) ==
    IF ~is_preprocessed(self, store) /\ ~force
    THEN [self |-> self, raised |-> AlreadyPreprocessed] @@ NoEffect(store)
    ELSE Dispatch(self, store, preprocessor(table, self.cls), ok, attrs)

\* an eager fetch that does not enforce the primary object
from_s3_unenforced(data_type, store, do_fetch) ==
    IF do_fetch
    THEN [fetch(NewCloudObject(data_type), store, FALSE, FALSE) EXCEPT !.ret = None]
    ELSE [self |-> NewCloudObject(data_type), raised |-> NoError] @@ NoEffect(store)

\* CloudObject.from_s3; the reference is returned, not what fetch() returned
from_s3(data_type, store, do_fetch) ==
    IF do_fetch
    THEN [fetch(NewCloudObject(data_type), store, TRUE, FALSE) EXCEPT !.ret = None]
    ELSE [self |-> NewCloudObject(data_type), raised |-> NoError] @@ NoEffect(store)

\* s3.upload_file: the local file becomes the primary object
upload_file(store, file) == [store EXCEPT !.obj = StoredObject(file, EmptyAttrs)]

\* an upload issued whatever the existence check answered
UploadUnlessExistsUnchecked(e, file) ==
    IF e.raised # NoError
    THEN [e EXCEPT !.ret = None]
    ELSE [e EXCEPT !.ret = None, !.store = upload_file(e.store, file), !.n_upload = 1]

\* new_from_file() after its existence check: e is the outcome of exists()
UploadUnlessExists(e, file) ==
    IF e.raised # NoError
    THEN [e EXCEPT !.ret = None]
    ELSE IF e.ret.value
         THEN [e EXCEPT !.ret = None, !.raised = AlreadyExists]
         ELSE [e EXCEPT !.ret = None, !.store = upload_file(e.store, file),
                        !.n_upload = 1]

\* CloudObject.new_from_file
new_from_file(data_type, store, file) ==
    UploadUnlessExists(exists(NewCloudObject(data_type), store), file)

\* getattr(self._obj_attrs, key)
get_attribute(self, key) ==
    IF key \in DOMAIN self.obj_attrs
    THEN [self |-> self, raised |-> NoError, ret |-> Returned(self.obj_attrs[key])]
    ELSE [self |-> self, raised |-> AttributeError, ret |-> None]

\* a slice as a partitioning strategy produces it: not bound to a reference
NewSlice(range) == [range |-> range, cloud_object |-> None, n_contextualize |-> 0]

\* CloudObjectSlice._contextualize: the slice is bound to the reference
contextualize(slice, cloud_object) ==
    [slice EXCEPT !.cloud_object = cloud_object, !.n_contextualize = @ + 1]

\* a partition that binds the first slice only
partition_first_only(self, slices) ==
    [i \in DOMAIN slices |-> IF i = 1 THEN contextualize(slices[i], self) ELSE slices[i]]

\* CloudObject.partition, slices being what strategy(self, ...) returned
partition(self, slices) ==
    [i \in DOMAIN slices |-> contextualize(slices[i], self)]

-----------------------------------------------------------------------------
(* Inputs *)

\* attribute mappings a preprocessor may produce
AttributeRecords == UNION {[S -> AttrValues] : S \in SUBSET AttrKeys}

\* stored forms of attribute values found in the store: encoded values, and
\* one that does not decode
StoredValues == {dump_value(v) : v \in AttrValues} \cup {0}

\* companion payloads found in the store
StoredPayloads == UNION {[S -> StoredValues] : S \in SUBSET AttrKeys}

\* the byte ranges slices stand for
SliceRanges == 1..MaxSlices

\* what a partitioning strategy may return: distinct fresh slices, in an order
\* of its choosing
StrategyResults ==
    {[i \in DOMAIN f |-> NewSlice(f[i])] :
        f \in UNION {{g \in [1..n -> SliceRanges] :
                         \A i, j \in 1..n : i # j => g[i] # g[j]} : n \in 0..MaxSlices}}

\* what the store may hold at the two locations when the program starts
InitialStores ==
    [obj  : {None} \cup {StoredObject(h, EmptyAttrs) : h \in FileHeads},
     meta : {None} \cup {StoredObject(MetaHead, p) : p \in StoredPayloads}]

EmptyStore == [obj |-> None, meta |-> None]

\* the fields of a reference the caller does not hold
NoCloudObject == NewCloudObject(0)

\* the record of a CloudObject call with outcome r; n_probe counts the
\* lookups of the companion issued outside fetch()
Call(op, args, r, n_probe) ==
    [op |-> op, args |-> args, raised |-> r.raised, ret |-> r.ret,
     n_head_obj |-> r.n_obj, n_head_meta |-> r.n_meta + n_probe,
     n_upload |-> r.n_upload, n_batch |-> r.n_batch, n_map_reduce |-> r.n_map_reduce]

NoCall == Call("none", None, [raised |-> NoError] @@ NoEffect(None), 0)

\* the record of a CloudDataType call on descriptor t; before is the
\* descriptor's bound class when the call began
TypeCall(op, t, arg, raised, ret, hops, before) ==
    [op |-> op, t |-> t, arg |-> arg, raised |-> raised, ret |-> ret, hops |-> hops,
     before |-> before]

NoTypeCall == TypeCall("none", 0, "None", NoError, "None", 0, "None")

Snapshot == [has_co |-> has_co, co |-> co, s3 |-> s3, heads |-> heads]

\* fetch() may start: the lookup counters stay within their bound
WithinHeads == heads.obj < MaxHeads /\ heads.meta < MaxHeads

\* the callers that run fetch() on the reference at the same time
Threads == {1, 2}

\* a caller that is not inside fetch(): pc is the source line it is at, res
\* and encoded_attrs are the locals of fetch()
IdleThread ==
    [pc |-> "idle", enforce_obj |-> FALSE, enforce_meta |-> FALSE, res |-> None,
     encoded_attrs |-> EmptyAttrs, raised |-> NoError, ret |-> None,
     n_obj |-> 0, n_meta |-> 0]

NoThreads == [t \in Threads |-> IdleThread]

\* no fetch() call is between its first and its last statement
NoFetchRunning == \A t \in Threads : threads[t].pc \in {"idle", "done"}

-----------------------------------------------------------------------------
(* CloudObject operations *)

\* a constructor ends with outcome r: the caller holds the new reference, or
\* none when the constructor raised
ConstructorEnds(op, args, r) ==
    /\ has_co' = (r.raised = NoError)
    /\ co' = IF r.raised = NoError THEN r.self ELSE NoCloudObject
    /\ heads' = IF r.raised = NoError THEN [obj |-> r.n_obj, meta |-> r.n_meta] ELSE NoHeads
    /\ s3' = r.store
    /\ call' = Call(op, args, r, 0)
    /\ pre' = Snapshot
    /\ threads' = NoThreads
    /\ UNCHANGED <<types, dt_call>>

\* a method of the held reference ends with outcome r
MethodEnds(op, args, r, n_probe) ==
    /\ co' = r.self
    /\ heads' = [obj |-> heads.obj + r.n_obj, meta |-> heads.meta + r.n_meta]
    /\ s3' = r.store
    /\ call' = Call(op, args, r, n_probe)
    /\ pre' = Snapshot
    /\ threads' = NoThreads
    /\ UNCHANGED <<has_co, types, dt_call>>

\* co = CloudObject(data_type, s3_uri_path)
CloudObjectInit(data_type) ==
    ConstructorEnds("__init__", [data_type |-> data_type],
                    [self |-> NewCloudObject(data_type), raised |-> NoError] @@ NoEffect(s3))

\* co = CloudObject.from_s3(data_type, s3_path, fetch=do_fetch)
FromS3(data_type, do_fetch) ==
    ConstructorEnds("from_s3", [data_type |-> data_type, fetch |-> do_fetch],
                    from_s3(data_type, s3, do_fetch))

\* co = CloudObject.new_from_file(data_type, file_path, cloud_path)
NewFromFile(data_type, file) ==
    ConstructorEnds("new_from_file", [data_type |-> data_type, file |-> file],
                    new_from_file(data_type, s3, file))

\* co.fetch(enforce_obj, enforce_meta)
Fetch(enforce_obj, enforce_meta) ==
    /\ has_co
    /\ WithinHeads
    /\ MethodEnds("fetch", [enforce_obj |-> enforce_obj, enforce_meta |-> enforce_meta],
                  fetch(co, s3, enforce_obj, enforce_meta), 0)

\* co.exists()
Exists ==
    /\ has_co
    /\ WithinHeads
    /\ MethodEnds("exists", None, exists(co, s3), 0)

\* co.is_preprocessed()
IsPreprocessed ==
    /\ has_co
    /\ MethodEnds("is_preprocessed", None,
                  [self |-> co, raised |-> NoError,
                   ret |-> Returned(is_preprocessed(co, s3))] @@ NoEffect(s3), 1)

\* co.preprocess(backend, force); the backend succeeds (ok) writing attrs, or fails
Preprocess(force, ok, attrs) ==
    /\ has_co
    /\ MethodEnds("preprocess", [force |-> force, backend_ok |-> ok],
                  preprocess(co, s3, types, force, ok, attrs), 1)

\* co.get_attribute(key)
GetAttribute(key) ==
    /\ has_co
    /\ MethodEnds("get_attribute", [key |-> key], get_attribute(co, key) @@ NoEffect(s3), 0)

\* co.partition(strategy), the strategy returning slices
Partition(slices) ==
    /\ has_co
    /\ MethodEnds("partition", [slices |-> slices],
                  [self |-> co, raised |-> NoError,
                   ret |-> Returned(partition(co, slices))] @@ NoEffect(s3), 0)

-----------------------------------------------------------------------------
(* CloudObject.fetch, statement by statement, run by concurrent callers *)

\* thread t executes one statement: it moves to th and the reference to self
Step(t, th, self) ==
    /\ threads' = [threads EXCEPT ![t] = th]
    /\ co' = self
    /\ UNCHANGED <<s3, has_co, heads, call, pre, types, dt_call>>

\* thread t leaves fetch() with an exception
Raise(t, e) == Step(t, [threads[t] EXCEPT !.pc = "done", !.raised = e], co)

\* every caller calls co.fetch(enforce_obj, enforce_meta) on the same reference
FetchStart(enforce_obj, enforce_meta) ==
    /\ has_co
    /\ NoFetchRunning
    /\ threads' = [t \in Threads |->
                     [IdleThread EXCEPT !.pc = "158", !.enforce_obj = enforce_obj,
                                        !.enforce_meta = enforce_meta]]
    /\ call' = NoCall
    /\ pre' = Snapshot
    /\ UNCHANGED <<s3, has_co, co, heads, types, dt_call>>

\* if not self._obj_meta:
TestObjMeta(t) ==
    /\ threads[t].pc = "158"
    /\ Step(t, [threads[t] EXCEPT !.pc = IF ~Truthy(co.obj_meta) THEN "160" ELSE "166"], co)

\* res, _ = head_object(self._s3, self._obj_path.bucket, self._obj_path.key)
HeadObj(t) ==
    /\ threads[t].pc = "160"
    /\ Step(t, [threads[t] EXCEPT
                   !.pc = IF head_object(s3, "obj").raised = NoError THEN "161" ELSE "163",
                   !.res = head_object(s3, "obj").res,
                   !.n_obj = @ + 1], co)

\* self._obj_meta = res
AssignObjMeta(t) ==
    /\ threads[t].pc = "161"
    /\ Step(t, [threads[t] EXCEPT !.pc = "166"], [co EXCEPT !.obj_meta = threads[t].res])

\* except KeyError: self._obj_meta = None
ClearObjMeta(t) ==
    /\ threads[t].pc = "163"
    /\ Step(t, [threads[t] EXCEPT !.pc = "164"], [co EXCEPT !.obj_meta = None])

\* if enforce_obj: raise e
RaiseIfEnforceObj(t) ==
    /\ threads[t].pc = "164"
    /\ IF threads[t].enforce_obj
       THEN Raise(t, KeyError)
       ELSE Step(t, [threads[t] EXCEPT !.pc = "166"], co)

\* if not self._meta_meta: and, when the slot is cached, the end of the method
TestMetaMeta(t) ==
    /\ threads[t].pc = "166"
    /\ Step(t, [threads[t] EXCEPT !.pc = IF ~Truthy(co.meta_meta) THEN "168" ELSE "done"], co)

\* res, encoded_attrs = head_object(self._s3, self._meta_path.bucket, self._meta_path.key)
HeadMeta(t) ==
    /\ threads[t].pc = "168"
    /\ Step(t, [threads[t] EXCEPT
                   !.pc = IF head_object(s3, "meta").raised = NoError THEN "169" ELSE "172",
                   !.res = head_object(s3, "meta").res,
                   !.encoded_attrs = head_object(s3, "meta").metadata,
                   !.n_meta = @ + 1], co)

\* self._meta_meta = res
AssignMetaMeta(t) ==
    /\ threads[t].pc = "169"
    /\ Step(t, [threads[t] EXCEPT !.pc = "170"], [co EXCEPT !.meta_meta = threads[t].res])

\* self._obj_attrs = SimpleNamespace(**load_attributes(encoded_attrs))
AssignObjAttrs(t) ==
    /\ threads[t].pc = "170"
    /\ IF load_attributes(threads[t].encoded_attrs).raised = NoError
       THEN Step(t, [threads[t] EXCEPT !.pc = "175"],
                 SetObjAttrs(co, threads[t].encoded_attrs,
                             load_attributes(threads[t].encoded_attrs)).self)
       ELSE Raise(t, load_attributes(threads[t].encoded_attrs).raised)

\* except KeyError: self._meta_meta = None
ClearMetaMeta(t) ==
    /\ threads[t].pc = "172"
    /\ Step(t, [threads[t] EXCEPT !.pc = "173"], [co EXCEPT !.meta_meta = None])

\* if enforce_meta: raise e
RaiseIfEnforceMeta(t) ==
    /\ threads[t].pc = "173"
    /\ IF threads[t].enforce_meta
       THEN Raise(t, KeyError)
       ELSE Step(t, [threads[t] EXCEPT !.pc = "175"], co)

\* return self._obj_meta, self._meta_meta
ReturnPair(t) ==
    /\ threads[t].pc = "175"
    /\ Step(t, [threads[t] EXCEPT !.pc = "done",
                                  !.ret = Returned(<<co.obj_meta, co.meta_meta>>)], co)

-----------------------------------------------------------------------------
(* CloudDataType operations *)

\* CloudDataType(preprocessor, inherit_from)
DataTypeInit(preprocessor_, inherit_from) ==
    /\ Len(types) < MaxTypes
    /\ types' = Append(types, NewCloudDataType(preprocessor_, inherit_from))
    /\ dt_call' = TypeCall("__init__", Len(types) + 1, "None", NoError, "None", 0, "None")
    /\ UNCHANGED co_vars
    /\ UNCHANGED threads

\* types[t](cls): the descriptor used as a class decorator
DataTypeCall(t, cls) ==
    LET r == bind(types[t], cls) IN
    /\ types' = [types EXCEPT ![t] = r.d]
    /\ dt_call' = TypeCall("__call__", t, cls, r.raised, "None", 0, types[t].co_class)
    /\ UNCHANGED co_vars
    /\ UNCHANGED threads

\* types[t].preprocessor
DataTypePreprocessor(t) ==
    LET r == preprocessor(types, t) IN
    /\ dt_call' = TypeCall("preprocessor", t, "None", r.raised, r.ret, r.hops,
                           types[t].co_class)
    /\ UNCHANGED types
    /\ UNCHANGED co_vars
    /\ UNCHANGED threads

-----------------------------------------------------------------------------
(* Specifications *)

\* no reference held yet; the store holds whatever was put there before
Init ==
    /\ s3 \in InitialStores
    /\ has_co = FALSE
    /\ co = NoCloudObject
    /\ heads = NoHeads
    /\ call = NoCall
    /\ pre = [has_co |-> FALSE, co |-> NoCloudObject, s3 |-> s3, heads |-> NoHeads]
    /\ types = RegisteredTypes
    /\ dt_call = NoTypeCall
    /\ threads = NoThreads

Next ==
    \/ \E t \in DOMAIN types : CloudObjectInit(t)
    \/ \E t \in DOMAIN types, do_fetch \in BOOLEAN : FromS3(t, do_fetch)
    \/ \E t \in DOMAIN types, file \in FileHeads : NewFromFile(t, file)
    \/ \E enforce_obj \in BOOLEAN, enforce_meta \in BOOLEAN : Fetch(enforce_obj, enforce_meta)
    \/ Exists
    \/ IsPreprocessed
    \/ \E force \in BOOLEAN, ok \in BOOLEAN, attrs \in AttributeRecords :
          Preprocess(force, ok, attrs)
    \/ \E key \in AttrKeys : GetAttribute(key)
    \/ \E slices \in StrategyResults : Partition(slices)

Spec == Init /\ [][Next]_vars

\* no descriptor constructed yet
InitTypes ==
    /\ s3 = EmptyStore
    /\ has_co = FALSE
    /\ co = NoCloudObject
    /\ heads = NoHeads
    /\ call = NoCall
    /\ pre = [has_co |-> FALSE, co |-> NoCloudObject, s3 |-> EmptyStore, heads |-> NoHeads]
    /\ types = <<>>
    /\ dt_call = NoTypeCall
    /\ threads = NoThreads

NextTypes ==
    \/ \E p \in Preprocessors \cup {"None"}, parent \in 0..Len(types) : DataTypeInit(p, parent)
    \/ \E t \in DOMAIN types : DataTypePreprocessor(t)

SpecTypes == InitTypes /\ [][NextTypes]_vars

\* the registered descriptors, none of them bound to a class yet
InitBind ==
    /\ s3 = EmptyStore
    /\ has_co = FALSE
    /\ co = NoCloudObject
    /\ heads = NoHeads
    /\ call = NoCall
    /\ pre = [has_co |-> FALSE, co |-> NoCloudObject, s3 |-> EmptyStore, heads |-> NoHeads]
    /\ types = RegisteredTypes
    /\ dt_call = NoTypeCall
    /\ threads = NoThreads

NextBind == \E t \in DOMAIN types, cls \in Classes \cup {NotAClass} : DataTypeCall(t, cls)

SpecBind == InitBind /\ [][NextBind]_vars

\* a store, the registered descriptors and no reference: references are
\* constructed, and fetch() is run on them by all callers at once, each call
\* interleaved with the others statement by statement; the store stays as
\* it is
InitRace ==
    /\ s3 \in InitialStores
    /\ has_co = FALSE
    /\ co = NoCloudObject
    /\ heads = NoHeads
    /\ call = NoCall
    /\ pre = [has_co |-> FALSE, co |-> NoCloudObject, s3 |-> s3, heads |-> NoHeads]
    /\ types = RegisteredTypes
    /\ dt_call = NoTypeCall
    /\ threads = NoThreads

NextRace ==
    \/ \E t \in DOMAIN types : NoFetchRunning /\ CloudObjectInit(t)
    \/ \E enforce_obj \in BOOLEAN, enforce_meta \in BOOLEAN :
          FetchStart(enforce_obj, enforce_meta)
    \/ \E t \in Threads : TestObjMeta(t)
    \/ \E t \in Threads : HeadObj(t)
    \/ \E t \in Threads : AssignObjMeta(t)
    \/ \E t \in Threads : ClearObjMeta(t)
    \/ \E t \in Threads : RaiseIfEnforceObj(t)
    \/ \E t \in Threads : TestMetaMeta(t)
    \/ \E t \in Threads : HeadMeta(t)
    \/ \E t \in Threads : AssignMetaMeta(t)
    \/ \E t \in Threads : AssignObjAttrs(t)
    \/ \E t \in Threads : ClearMetaMeta(t)
    \/ \E t \in Threads : RaiseIfEnforceMeta(t)
    \/ \E t \in Threads : ReturnPair(t)

SpecRace == InitRace /\ [][NextRace]_vars

-----------------------------------------------------------------------------
(* Properties of CloudObject.fetch *)

IsFetch == call.op = "fetch"

\* C1: over any sequence of fetch() calls on one reference, the store is
\* looked up at most once for the primary object and at most once for the
\* metadata companion: a slot that has resolved, to present or to absent,
\* is never looked up again.
C1_AtMostOneLookupPerSlot == heads.obj <= 1 /\ heads.meta <= 1

\* C1, as amended: each fetch() looks up each slot at most once, and a slot
\* that has resolved to present is never looked up again by a later fetch();
\* a slot left at None, unresolved or resolved to absent, is looked up by
\* every fetch() that reaches it.
C1_PresentSlotNeverLookedUpAgain ==
    call.op \in {"fetch", "exists"} =>
        /\ call.n_head_obj <= 1 /\ call.n_head_meta <= 1
        /\ Truthy(pre.co.obj_meta) => call.n_head_obj = 0
        /\ Truthy(pre.co.meta_meta) => call.n_head_meta = 0
        /\ IsFetch /\ ~Truthy(pre.co.obj_meta) => call.n_head_obj = 1
        /\ IsFetch /\ ~Truthy(pre.co.meta_meta) /\ call.n_head_meta = 0 =>
              call.raised = KeyError /\ call.args.enforce_obj

\* a fetch() skipped the object slot it had found present and looked up again
\* the companion slot an earlier fetch() had found absent
C1_Witness ==
    /\ IsFetch
    /\ Truthy(pre.co.obj_meta) /\ call.n_head_obj = 0
    /\ pre.co.meta_meta = None /\ pre.heads.meta >= 1 /\ call.n_head_meta = 1

\* C2: every fetch() call that does not fail returns the pair of the two
\* cached slots as they are after the call, each component None exactly when
\* that object is absent from the store, whatever the slots held at the start.
C2_FetchReturnsThePair ==
    IsFetch /\ call.raised = NoError =>
        /\ call.ret = Returned(<<co.obj_meta, co.meta_meta>>)
        /\ (co.obj_meta = None <=> s3.obj = None)
        /\ (co.meta_meta = None <=> s3.meta = None)

\* the slot was looked up in the last call and the lookup found nothing
ObjResolvedAbsent == call.n_head_obj = 1 /\ pre.s3.obj = None
MetaResolvedAbsent == call.n_head_meta = 1 /\ pre.s3.meta = None

\* C4: fetch(enforce_obj, enforce_meta) fails with the not-found error exactly
\* when a slot whose enforce flag is set resolves to absent during the call;
\* with both flags false it never fails for a missing object or companion and
\* records the missing one as None.
C4_NotFoundExactlyWhenEnforced ==
    IsFetch =>
        /\ call.raised = KeyError <=>
              \/ call.args.enforce_obj /\ ObjResolvedAbsent
              \/ call.args.enforce_meta /\ MetaResolvedAbsent
        /\ ~call.args.enforce_obj /\ ~call.args.enforce_meta =>
              /\ call.raised # KeyError
              /\ s3.obj = None => co.obj_meta = None
              /\ s3.meta = None => co.meta_meta = None

\* a fetch() with enforce_meta alone failed on the missing companion after
\* finding the primary object
C4_Witness ==
    /\ IsFetch
    /\ call.raised = KeyError
    /\ call.args.enforce_meta /\ ~call.args.enforce_obj
    /\ ObjResolvedAbsent = FALSE /\ MetaResolvedAbsent
    /\ co.obj_meta # None

\* the companion payload the last call's lookup returned decodes
FetchedPayloadDecodes ==
    /\ call.n_head_meta = 1
    /\ pre.s3.meta # None
    /\ \A k \in DOMAIN pre.s3.meta.metadata : Decodable(pre.s3.meta.metadata[k])

DecodedFetchedPayload ==
    [k \in DOMAIN pre.s3.meta.metadata |-> load_value(pre.s3.meta.metadata[k])]

\* C5: after any fetch(), successful or failed, the attributes record is the
\* complete decoding of the companion payload fetched in that call or exactly
\* the record it was before the call; a decode failure leaves it unchanged.
C5_AttributesAllOrNothing ==
    call.op \in {"fetch", "exists"} =>
        /\ \/ co.obj_attrs = pre.co.obj_attrs
           \/ FetchedPayloadDecodes /\ co.obj_attrs = DecodedFetchedPayload
        /\ call.raised = CorruptAttributes => co.obj_attrs = pre.co.obj_attrs

\* a fetch() failed decoding a payload of which one value decodes and another
\* does not
C5_Witness ==
    /\ IsFetch
    /\ call.raised = CorruptAttributes
    /\ \E k \in DOMAIN pre.s3.meta.metadata : Decodable(pre.s3.meta.metadata[k])
    /\ \E k \in DOMAIN pre.s3.meta.metadata : ~Decodable(pre.s3.meta.metadata[k])

\* both slots of the reference were looked up by a call before the last one
BothResolvedEarlier == pre.heads.obj >= 1 /\ pre.heads.meta >= 1

\* C14: a non-failing fetch() yields no value exactly when both slots had
\* already been resolved by an earlier call, and returns the pair in every
\* other case.
C14_NoValueExactlyWhenBothResolved ==
    IsFetch /\ call.raised = NoError =>
        /\ call.ret = None <=> BothResolvedEarlier
        /\ call.ret # None => call.ret = Returned(<<co.obj_meta, co.meta_meta>>)

\* C14, as amended: a non-failing fetch() yields no value exactly when the
\* companion slot was already present when the call started; in every other
\* case, a companion resolved to absent by an earlier call included, it
\* returns the pair.
C14_NoValueExactlyWhenCompanionCached ==
    IsFetch /\ call.raised = NoError =>
        /\ call.ret = None <=> Truthy(pre.co.meta_meta)
        /\ call.ret # None => call.ret = Returned(<<co.obj_meta, co.meta_meta>>)

\* a fetch() returned the pair although both slots had been looked up before:
\* the object slot was cached and the companion, absent until then, was found
C14_Witness ==
    /\ IsFetch
    /\ call.raised = NoError
    /\ BothResolvedEarlier
    /\ Truthy(pre.co.obj_meta)
    /\ call.n_head_obj = 0 /\ call.n_head_meta = 1
    /\ call.ret = Returned(<<co.obj_meta, co.meta_meta>>)
    /\ Truthy(co.meta_meta)

\* C19: when fetch(enforce_obj=true) fails because the primary object is
\* absent, the call issues no lookup of the metadata companion and leaves the
\* companion slot and the attributes record exactly as they were.
C19_ObjectFailureSkipsCompanion ==
    IsFetch /\ call.args.enforce_obj /\ call.raised = KeyError /\ ObjResolvedAbsent =>
        /\ call.n_head_meta = 0
        /\ heads.meta = pre.heads.meta
        /\ co.meta_meta = pre.co.meta_meta
        /\ co.obj_attrs = pre.co.obj_attrs
        /\ co.obj_meta = None

\* the enforced fetch failed on a reference without companion slot although
\* the store holds a companion that decodes to a non-empty record
C19_Witness ==
    /\ IsFetch
    /\ call.args.enforce_obj
    /\ call.raised = KeyError
    /\ ObjResolvedAbsent
    /\ pre.co.meta_meta = None
    /\ pre.s3.meta # None
    /\ \A k \in DOMAIN pre.s3.meta.metadata : Decodable(pre.s3.meta.metadata[k])
    /\ DOMAIN pre.s3.meta.metadata # {}

\* C17: after new_from_file has succeeded, the next exists() on the returned
\* reference returns true: the absent result its existence check left in the
\* object slot does not hide the object the same call uploaded.
C17_ExistsAfterNewFromFile ==
    [][call.op = "new_from_file" /\ call.raised = NoError /\ call'.op = "exists" =>
          call'.raised = NoError /\ call'.ret = Returned(TRUE)]_vars

\* exists() returned true on a reference whose object slot had been looked up
\* and left at None while the store holds the object: the reference
\* new_from_file returned
C17_Witness ==
    /\ call.op = "exists"
    /\ call.ret = Returned(TRUE)
    /\ pre.co.obj_meta = None
    /\ pre.heads.obj >= 1
    /\ call.n_head_obj = 1
    /\ pre.s3.obj # None

\* the reference's earlier fetch() found the companion absent and the
\* preprocess call that just ended succeeded
PreprocessedAfterAbsentFetch ==
    /\ has_co
    /\ call.op = "preprocess"
    /\ call.raised = NoError
    /\ co.meta_meta = None
    /\ heads.meta >= 1
    /\ s3.meta # None

\* the decoding of the companion payload the store holds
DecodedStoredPayload ==
    [k \in DOMAIN s3.meta.metadata |-> load_value(s3.meta.metadata[k])]

\* C18: on a reference whose earlier fetch() found the companion absent, once
\* a preprocess call has succeeded, the next fetch() on that reference (unless
\* it enforces a primary object that is missing, and fails on it) resolves the
\* companion slot to present and populates the attributes record, so that
\* get_attribute succeeds for every attribute of the payload.
C18_FetchAfterPreprocessPopulatesAttributes ==
    [][PreprocessedAfterAbsentFetch /\ call'.op = "fetch"
          /\ ~(call'.args.enforce_obj /\ s3.obj = None) =>
          /\ call'.raised = NoError
          /\ call'.n_head_meta = 1
          /\ Truthy(co'.meta_meta)
          /\ co'.obj_attrs = DecodedStoredPayload
          /\ \A k \in DOMAIN s3.meta.metadata :
                get_attribute(co', k).ret = Returned(load_value(s3.meta.metadata[k]))]_vars

\* a fetch() made the companion slot present and the attributes non-empty on
\* a reference that had looked the companion up before and not found it
C18_Witness ==
    /\ IsFetch
    /\ pre.co.meta_meta = None
    /\ pre.heads.meta >= 1
    /\ Truthy(co.meta_meta)
    /\ co.obj_attrs # EmptyAttrs
    /\ \A k \in AttrKeys : get_attribute(co, k).raised = NoError

\* every concurrent fetch() has ended
RaceOver == \A t \in Threads : threads[t].pc = "done"

\* what a caller sees of a fetch(): the exception or the value
Outcome(f) == [raised |-> f.raised, ret |-> f.ret]

\* one fetch() on the reference as it was when the concurrent calls began
SingleFetch ==
    fetch(pre.co, s3, threads[1].enforce_obj, threads[1].enforce_meta)

\* the fetch() that follows it in a serial run
SecondFetch ==
    fetch(SingleFetch.self, s3, threads[1].enforce_obj, threads[1].enforce_meta)

\* the concurrent calls left the reference as a single fetch() leaves it
RaceEndsAsSingleFetch == RaceOver => co = SingleFetch.self

\* C16: two fetch() calls on one reference, interleaved statement by statement
\* against an unchanged store, end with the object slot, the companion slot
\* and the attributes record a single fetch() produces, and their callers see
\* what the callers of a serial run see: lookups may be duplicated, nothing
\* else differs.
C16_InterleavedFetchesAsSerial ==
    RaceOver =>
        /\ co = SingleFetch.self
        /\ \E a, b \in Threads :
              /\ a # b
              /\ Outcome(threads[a]) = Outcome(SingleFetch)
              /\ Outcome(threads[b]) = Outcome(SecondFetch)

\* the last call was one of the constructors
IsConstructor == call.op \in {"__init__", "from_s3", "new_from_file"}

\* the companion slot of the held reference became present in the last call
MetaBecamePresent ==
    /\ has_co
    /\ Truthy(co.meta_meta)
    /\ IsConstructor \/ ~Truthy(pre.co.meta_meta)

\* C12: the attributes record of a reference is non-empty only if its
\* companion slot is present, and a companion slot that is present came with
\* the attributes record set to the decoding of the payload the same lookup
\* returned: the slot never becomes present without the attributes having
\* been decoded, and both stay as they are from then on.
C12_CompanionPresentMeansAttributesDecoded ==
    has_co =>
        /\ co.obj_attrs # EmptyAttrs => Truthy(co.meta_meta)
        /\ MetaBecamePresent =>
              FetchedPayloadDecodes /\ co.obj_attrs = DecodedFetchedPayload
        /\ ~IsConstructor /\ Truthy(pre.co.meta_meta) =>
              co.meta_meta = pre.co.meta_meta /\ co.obj_attrs = pre.co.obj_attrs

-----------------------------------------------------------------------------
(* Properties of CloudObject.preprocess *)

\* C3: preprocess(backend, force=false) on a reference whose metadata
\* companion already exists in the store fails with the already-preprocessed
\* error and invokes neither backend execution path.
C3_GuardRejectsPreprocessedObject ==
    call.op = "preprocess" /\ ~call.args.force /\ pre.s3.meta # None =>
        /\ call.raised = AlreadyPreprocessed
        /\ call.n_batch = 0
        /\ call.n_map_reduce = 0

IsPreprocess == call.op = "preprocess"

\* the guard of the last preprocess call let it through
GuardPassed == IsPreprocess /\ (call.args.force \/ pre.s3.meta # None)

\* no backend execution path was invoked in the last call
NoBackendPath == call.n_batch = 0 /\ call.n_map_reduce = 0

ResolvedPreprocessor == preprocessor(types, pre.co.cls)

\* C15: when the guard passes, preprocess invokes the batch path once and no
\* other when the resolved preprocessor is of batch kind, the map-reduce path
\* once and no other when it is of map-reduce kind, and fails invoking no path
\* when it is of neither kind or cannot be resolved. preprocess writes nothing
\* to the store itself, leaves the object slot, the companion slot and the
\* attributes record as they were, and a backend failure reaches the caller
\* unchanged.
C15_DispatchesToExactlyOnePath ==
    IsPreprocess =>
        /\ co = pre.co
        /\ NoBackendPath => s3 = pre.s3
        /\ GuardPassed =>
              /\ ResolvedPreprocessor.raised # NoError =>
                    call.raised = ResolvedPreprocessor.raised /\ NoBackendPath
              /\ ResolvedPreprocessor.raised = NoError =>
                    /\ IsBatch(ResolvedPreprocessor.ret) =>
                          call.n_batch = 1 /\ call.n_map_reduce = 0
                    /\ IsMapReduce(ResolvedPreprocessor.ret) =>
                          call.n_batch = 0 /\ call.n_map_reduce = 1
                    /\ ~IsBatch(ResolvedPreprocessor.ret)
                          /\ ~IsMapReduce(ResolvedPreprocessor.ret) =>
                          call.raised = NotPreprocessable /\ NoBackendPath
                    /\ ~NoBackendPath =>
                          call.raised = IF call.args.backend_ok THEN NoError
                                        ELSE BackendError

\* a forced preprocess of a map-reduce object whose backend failed
C15_Witness ==
    /\ IsPreprocess
    /\ call.args.force
    /\ IsMapReduce(ResolvedPreprocessor.ret)
    /\ call.n_map_reduce = 1
    /\ call.raised = BackendError
    /\ co.meta_meta # None

-----------------------------------------------------------------------------
(* Properties of CloudObject.is_preprocessed *)

\* C9: is_preprocessed() returns true exactly when the metadata companion
\* exists in the store at the time of the call, whatever the cached companion
\* slot holds; it returns false rather than failing when the companion is
\* missing, and leaves both slots and the attributes record unchanged.
C9_IsPreprocessedProbesTheStore ==
    call.op = "is_preprocessed" =>
        /\ call.raised = NoError
        /\ call.ret = Returned(s3.meta # None)
        /\ co = pre.co
        /\ s3 = pre.s3

\* is_preprocessed() answered true while the cached companion slot, resolved
\* to absent by an earlier fetch(), still held None
C9_Witness ==
    /\ call.op = "is_preprocessed"
    /\ call.ret = Returned(TRUE)
    /\ co.meta_meta = None
    /\ heads.meta >= 1

-----------------------------------------------------------------------------
(* Properties of the constructors *)

IsNewFromFile == call.op = "new_from_file"
IsFromS3 == call.op = "from_s3"

\* the companion found in the store when the last call began does not decode
CompanionWasCorrupt ==
    /\ pre.s3.meta # None
    /\ \E k \in DOMAIN pre.s3.meta.metadata : ~Decodable(pre.s3.meta.metadata[k])

\* an upload happens at most once, and only after the lookup of the primary
\* object found nothing
UploadOnlyAfterAbsent ==
    /\ call.n_upload <= 1
    /\ call.n_upload = 1 => call.n_head_obj = 1 /\ pre.s3.obj = None
    /\ call.n_upload = 0 => s3 = pre.s3

\* C6: new_from_file against a location where the primary object already
\* exists fails with the already-exists error and never issues an upload; an
\* upload is issued only after the existence lookup reported the primary
\* object absent, and then exactly once.
C6_OccupiedLocationFailsAlreadyExists ==
    IsNewFromFile =>
        /\ pre.s3.obj # None => call.raised = AlreadyExists /\ call.n_upload = 0
        /\ UploadOnlyAfterAbsent

\* C6, as amended: against an occupied location new_from_file fails and never
\* uploads; the failure is the already-exists error unless the companion
\* payload read by the existence check does not decode, in which case it is
\* the decode error. An upload is issued only after the lookup reported the
\* primary object absent, and then exactly once.
C6_OccupiedLocationNeverUploads ==
    IsNewFromFile =>
        /\ pre.s3.obj # None =>
              /\ call.n_upload = 0
              /\ call.raised = IF CompanionWasCorrupt THEN CorruptAttributes
                               ELSE AlreadyExists
        /\ pre.s3.obj = None /\ ~CompanionWasCorrupt =>
              call.raised = NoError /\ call.n_upload = 1
        /\ UploadOnlyAfterAbsent

\* new_from_file met an occupied location whose companion decodes
C6_Witness ==
    /\ IsNewFromFile
    /\ pre.s3.obj # None
    /\ pre.s3.meta # None /\ ~CompanionWasCorrupt
    /\ call.raised = AlreadyExists

\* from_s3 with fetch=false: no lookup, a fresh reference
LazyFromS3 ==
    /\ call.raised = NoError
    /\ call.n_head_obj = 0 /\ call.n_head_meta = 0
    /\ has_co
    /\ co.obj_meta = None /\ co.meta_meta = None /\ co.obj_attrs = EmptyAttrs

\* C10: from_s3 with fetch=true fails with not-found when the primary object
\* is absent and otherwise returns a reference whose object slot is present;
\* with fetch=false it issues no lookup and returns a reference with both
\* slots unresolved and an empty attributes record.
C10_FromS3ReturnsWhenObjectPresent ==
    IsFromS3 =>
        /\ call.args.fetch /\ pre.s3.obj = None => call.raised = KeyError /\ ~has_co
        /\ call.args.fetch /\ pre.s3.obj # None =>
              call.raised = NoError /\ has_co /\ co.obj_meta = pre.s3.obj.res
        /\ ~call.args.fetch => LazyFromS3

\* C10, as amended: from_s3 with fetch=true fails with not-found when the
\* primary object is absent; when it is present it returns a reference whose
\* object slot is present, unless the companion payload does not decode, in
\* which case it fails with the decode error. With fetch=false it issues no
\* lookup and returns a reference with both slots unresolved and an empty
\* attributes record.
C10_FromS3EagerOrLazy ==
    IsFromS3 =>
        /\ call.args.fetch /\ pre.s3.obj = None => call.raised = KeyError /\ ~has_co
        /\ call.args.fetch /\ pre.s3.obj # None /\ ~CompanionWasCorrupt =>
              call.raised = NoError /\ has_co /\ co.obj_meta = pre.s3.obj.res
        /\ call.args.fetch /\ pre.s3.obj # None /\ CompanionWasCorrupt =>
              call.raised = CorruptAttributes /\ ~has_co
        /\ ~call.args.fetch => LazyFromS3

\* from_s3 with fetch=true failed on a missing primary object although the
\* companion was there
C10_Witness ==
    /\ IsFromS3
    /\ call.args.fetch
    /\ pre.s3.obj = None /\ pre.s3.meta # None
    /\ call.raised = KeyError

-----------------------------------------------------------------------------
(* Properties of CloudDataType *)

\* the k-th descriptor up the parent chain of t (t itself for k = 0), 0 past
\* the end of the chain
RECURSIVE Ancestor(_, _)
Ancestor(t, k) ==
    IF k = 0 THEN t
    ELSE LET a == Ancestor(t, k - 1) IN IF a = 0 THEN 0 ELSE types[a].parent

\* how far up the chain of t the descriptors with a preprocessor of their own are
OwnersAbove(t) ==
    {k \in 0..Len(types) : Ancestor(t, k) # 0
                           /\ types[Ancestor(t, k)].preprocessor # "None"}

Least(S) == CHOOSE k \in S : \A j \in S : k <= j

\* C7: preprocessor resolution returns the preprocessor of the nearest
\* descriptor on the parent chain, starting with the descriptor itself, that
\* has one of its own, fails with the no-preprocessor error when none has, and
\* terminates within the length of the chain.
C7_NearestPreprocessorOnChain ==
    dt_call.op = "preprocessor" =>
        /\ dt_call.hops < Len(types)
        /\ IF OwnersAbove(dt_call.t) = {}
           THEN dt_call.raised = NoPreprocessor
           ELSE /\ dt_call.raised = NoError
                /\ dt_call.hops = Least(OwnersAbove(dt_call.t))
                /\ dt_call.ret = types[Ancestor(dt_call.t, dt_call.hops)].preprocessor

\* a resolution delegated once and stopped at a parent whose own parent has a
\* different preprocessor
C7_Witness ==
    /\ dt_call.op = "preprocessor"
    /\ dt_call.raised = NoError
    /\ dt_call.hops = 1
    /\ Ancestor(dt_call.t, 2) # 0
    /\ types[Ancestor(dt_call.t, 2)].preprocessor \notin {"None", dt_call.ret}

\* C8: over any sequence of binding calls the bound class of a descriptor
\* changes at most once, from unbound to the first class bound: the first
\* binding of a class succeeds, every later attempt fails, and a failed
\* attempt leaves the bound class unchanged.
C8_BoundClassIsSingleAssignment ==
    [][ /\ \A t \in DOMAIN types :
              types[t].co_class # "None" => types'[t].co_class = types[t].co_class
        /\ dt_call'.op = "__call__" =>
              LET t == dt_call'.t
                  cls == dt_call'.arg
              IN  /\ \A u \in DOMAIN types \ {t} : types'[u] = types[u]
                  /\ IF isclass(cls) /\ types[t].co_class = "None"
                     THEN dt_call'.raised = NoError /\ types'[t].co_class = cls
                     ELSE /\ dt_call'.raised # NoError
                          /\ types'[t].co_class = types[t].co_class
      ]_vars

\* a second, different class was refused by a descriptor already bound
C8_Witness ==
    /\ dt_call.op = "__call__"
    /\ dt_call.raised = CantOverwrite
    /\ dt_call.before # "None"
    /\ dt_call.arg # dt_call.before
    /\ types[dt_call.t].co_class = dt_call.before

\* C11: partition returns exactly the sequence the strategy produced, in the
\* same order and of the same length, and every returned slice has been bound
\* to the partitioned reference exactly once, the strategy having handed the
\* slices over unbound.
C11_PartitionBindsEverySliceOnce ==
    call.op = "partition" =>
        /\ call.raised = NoError
        /\ co = pre.co
        /\ s3 = pre.s3
        /\ Len(call.ret.value) = Len(call.args.slices)
        /\ \A i \in DOMAIN call.args.slices :
              /\ call.args.slices[i] = NewSlice(call.args.slices[i].range)
              /\ call.ret.value[i].range = call.args.slices[i].range
              /\ call.ret.value[i].cloud_object = co
              /\ call.ret.value[i].n_contextualize = 1

C11_Witness ==
    /\ call.op = "partition"
    /\ Len(call.ret.value) = MaxSlices
    /\ call.ret.value[1].range > call.ret.value[2].range
    /\ \A i \in DOMAIN call.ret.value : call.ret.value[i].cloud_object = co

====
